---- MODULE Spec2Model ----
(***************************************************************************)
(* Model of the real-time layer of the assessment API:                     *)
(*   app/services/websocket_manager.py  (ConnectionManager)                *)
(*   app/services/presence_service.py   (PresenceService)                  *)
(*   app/api/chat.py                    (websocket_endpoint,               *)
(*                                       mark_message_read, send_message)  *)
(*                                                                         *)
(* Every coroutine of the manager is a task.  A task runs atomically from  *)
(* one suspension point (an await on the transport: websocket.accept or    *)
(* send_text) to the next, which is how the asyncio event loop schedules   *)
(* it; the synchronous methods (disconnect, and subscribe/unsubscribe,     *)
(* which contain no await) are single steps.  A handle is a WebSocket      *)
(* object, compared by identity only; it is named by its user and the      *)
(* smallest number that no live reference to a handle of that user bears.  *)
(* The iteration order of a copied set or dict is not fixed by the model:  *)
(* any order is allowed.  A coroutine that was                             *)
(* suspended at least once occupies a slot, and stays visible as "done"    *)
(* after it returned until Return frees the slot; a call that finishes     *)
(* without reaching an await is a single step and needs no slot.           *)
(***************************************************************************)
EXTENDS Integers, Sequences, FiniteSets, TLC

\* ---- bounds ----
NumUsers == 3
NumChannels == 1
MaxTasks == 1      \* suspended coroutines of the manager at the same time
MaxSessions == 2   \* runs of websocket_endpoint
MaxRequests == 3   \* rows of the table partner_requests

Users == 1..NumUsers
Channels == 1..NumChannels
\* In Spec the last user only uses the HTTP endpoints (it sends messages and marks
\* them read) and never opens a WebSocket; in SpecConnect every user connects.
WsUsers == 1..(NumUsers - 1)

\* ---- program constants ----
ONLINE_TTL == 300
OFFLINE_TTL == 86400

NoUser == 0
NoHandle == 0
NoChannel == 0
NoTime == -1
NoSession == 0

VARIABLES
  active_connections,     \* dict user_id -> WebSocket handle
  channel_subscriptions,  \* dict channel_id -> set of user_ids
  user_subscriptions,     \* dict user_id -> set of channel_ids
  use_redis,              \* PresenceService.use_redis
  presence_data,          \* PresenceService._presence_data (in-memory fallback)
  redis_presence,         \* Redis keys presence:user:<id> -> [data, ttl]
  redis_online_users,     \* Redis set presence:online_users
  now,                    \* datetime.now(timezone.utc)
  tasks,                  \* the coroutines of the manager, one per slot
  sessions,               \* the runs of websocket_endpoint
  partner_requests,       \* table partner_requests: row i has id i
  partnerships,           \* table partnerships: row i has id i
  response                \* the status code of the last answer of the partner endpoints

vars == <<active_connections, channel_subscriptions, user_subscriptions,
          use_redis, presence_data, redis_presence, redis_online_users,
          now, tasks, sessions, partner_requests, partnerships, response>>

\* the tables and the answer of the partner endpoints
db_vars == <<partner_requests, partnerships, response>>

\* ---- Python dicts as functions whose DOMAIN is the key set ----
EmptyDict == [x \in {} |-> 0]
DictPut(d, k, v) == [x \in (DOMAIN d) \cup {k} |-> IF x = k THEN v ELSE d[x]]
DictRemove(d, k) == [x \in (DOMAIN d) \ {k} |-> d[x]]
DictGet(d, k, default) == IF k \in DOMAIN d THEN d[k] ELSE default

\* The manager and presence state as one value, threaded through the methods.
St ==
  [ac |-> active_connections, cs |-> channel_subscriptions, us |-> user_subscriptions,
   pd |-> presence_data, rp |-> redis_presence, ro |-> redis_online_users]

SetSt(s) ==
  /\ active_connections' = s.ac
  /\ channel_subscriptions' = s.cs
  /\ user_subscriptions' = s.us
  /\ presence_data' = s.pd
  /\ redis_presence' = s.rp
  /\ redis_online_users' = s.ro

\* ---- PresenceService ----
\* variant: connect does not mark the user online
set_user_online_skipped(s, u) == s

\* variant: a record that can be read is kept as it is (set if absent)
set_user_online_keeps_first(s, u) ==
  LET data == [online |-> TRUE, last_seen |-> now, connected_at |-> now]
  IN IF use_redis
       THEN IF u \in DOMAIN s.rp /\ now < s.rp[u].data.last_seen + s.rp[u].ttl
              THEN [s EXCEPT !.ro = s.ro \cup {u}]
              ELSE [s EXCEPT !.rp = DictPut(s.rp, u, [data |-> data, ttl |-> ONLINE_TTL]),
                             !.ro = s.ro \cup {u}]
       ELSE IF u \in DOMAIN s.pd THEN s ELSE [s EXCEPT !.pd = DictPut(s.pd, u, data)]

\* the methods of a PresenceService whose use_redis is redis
set_user_online_on(redis, s, u) ==
  LET data == [online |-> TRUE, last_seen |-> now, connected_at |-> now]
  IN IF redis
       THEN [s EXCEPT !.rp = DictPut(s.rp, u, [data |-> data, ttl |-> ONLINE_TTL]),
                      !.ro = s.ro \cup {u}]
       ELSE [s EXCEPT !.pd = DictPut(s.pd, u, data)]

set_user_online(s, u) == set_user_online_on(use_redis, s, u)

\* variant: the Redis branch leaves the user in the set of online users
set_user_offline_on_without_srem(redis, s, u) ==
  IF redis
    THEN [s EXCEPT !.rp = DictPut(s.rp, u,
                            [data |-> [online |-> FALSE, last_seen |-> now, connected_at |-> NoTime],
                             ttl |-> OFFLINE_TTL])]
    ELSE IF u \in DOMAIN s.pd
           THEN [s EXCEPT !.pd = DictPut(s.pd, u, [s.pd[u] EXCEPT !.online = FALSE, !.last_seen = now])]
           ELSE s

set_user_offline_on(redis, s, u) ==
  IF redis
    THEN [s EXCEPT !.rp = DictPut(s.rp, u,
                            [data |-> [online |-> FALSE, last_seen |-> now, connected_at |-> NoTime],
                             ttl |-> OFFLINE_TTL]),
                   !.ro = s.ro \ {u}]
    ELSE IF u \in DOMAIN s.pd
           THEN [s EXCEPT !.pd = DictPut(s.pd, u, [s.pd[u] EXCEPT !.online = FALSE, !.last_seen = now])]
           ELSE s

set_user_offline(s, u) == set_user_offline_on(use_redis, s, u)

\* {"online": False, "last_seen": None}
DefaultPresence == [online |-> FALSE, last_seen |-> NoTime, connected_at |-> NoTime]

\* redis_client.get: a key written by setex is gone once its ttl has run out;
\* every setex of the service is made together with last_seen = now
RedisHas(s, u) ==
  /\ u \in DOMAIN s.rp
  /\ now < s.rp[u].data.last_seen + s.rp[u].ttl

\* variant: when the store raises, the record is returned all the same
get_user_presence_deaf_to_errors(s, u, raises) ==
  IF use_redis
    THEN IF RedisHas(s, u) THEN s.rp[u].data ELSE DefaultPresence
    ELSE DictGet(s.pd, u, DefaultPresence)

\* variant: a Redis key outlives its ttl
get_user_presence_ignores_ttl(s, u, raises) ==
  IF use_redis
    THEN IF raises THEN DefaultPresence
         ELSE IF u \in DOMAIN s.rp THEN s.rp[u].data ELSE DefaultPresence
    ELSE DictGet(s.pd, u, DefaultPresence)

\* raises: the call to the store raises (Redis only), which the method catches
get_user_presence_on(redis, s, u, raises) ==
  IF redis
    THEN IF raises THEN DefaultPresence
         ELSE IF RedisHas(s, u) THEN s.rp[u].data ELSE DefaultPresence
    ELSE DictGet(s.pd, u, DefaultPresence)

get_user_presence(s, u, raises) == get_user_presence_on(use_redis, s, u, raises)

is_user_online(s, u, raises) == get_user_presence(s, u, raises).online

get_online_users_on(redis, s, raises) ==
  IF redis
    THEN IF raises THEN {} ELSE s.ro
    ELSE {u \in DOMAIN s.pd : s.pd[u].online}

get_online_users(s, raises) == get_online_users_on(use_redis, s, raises)

\* variant: a refresh also marks the user online
update_last_seen_marks_online(s, u) ==
  IF use_redis
    THEN IF RedisHas(s, u)
           THEN [s EXCEPT !.rp = DictPut(s.rp, u,
                                   [data |-> [s.rp[u].data EXCEPT !.last_seen = now, !.online = TRUE],
                                    ttl |-> ONLINE_TTL])]
           ELSE s
    ELSE IF u \in DOMAIN s.pd
           THEN [s EXCEPT !.pd = DictPut(s.pd, u,
                                   [s.pd[u] EXCEPT !.last_seen = now, !.online = TRUE])]
           ELSE s

\* variant: a refresh writes the Redis key with the retention of an offline record
update_last_seen_long_ttl(s, u) ==
  IF use_redis
    THEN IF RedisHas(s, u)
           THEN [s EXCEPT !.rp = DictPut(s.rp, u,
                                   [data |-> [s.rp[u].data EXCEPT !.last_seen = now],
                                    ttl |-> OFFLINE_TTL])]
           ELSE s
    ELSE IF u \in DOMAIN s.pd
           THEN [s EXCEPT !.pd = DictPut(s.pd, u, [s.pd[u] EXCEPT !.last_seen = now])]
           ELSE s

update_last_seen_on(redis, s, u) ==
  IF redis
    THEN IF RedisHas(s, u)
           THEN [s EXCEPT !.rp = DictPut(s.rp, u,
                                   [data |-> [s.rp[u].data EXCEPT !.last_seen = now],
                                    ttl |-> ONLINE_TTL])]
           ELSE s
    ELSE IF u \in DOMAIN s.pd
           THEN [s EXCEPT !.pd = DictPut(s.pd, u, [s.pd[u] EXCEPT !.last_seen = now])]
           ELSE s

update_last_seen(s, u) == update_last_seen_on(use_redis, s, u)

\* what a call that Redis fails leaves behind: nothing when the first command
\* raises ("first"), the record alone when the set command raises ("second");
\* the method catches the error and returns False
RedisOutcome(s, s2, outcome) ==
  CASE outcome = "ok" -> s2
    [] outcome = "first" -> s
    [] outcome = "second" -> [s EXCEPT !.rp = s2.rp]

Outcomes == IF use_redis THEN {"ok", "first", "second"} ELSE {"ok"}

\* what a method hands to its caller: the state it leaves, the value it
\* returns, and whether an exception leaves it (raised)
set_user_online_result(s, u, outcome) ==
  [s |-> RedisOutcome(s, set_user_online(s, u), outcome),
   ret |-> outcome = "ok", raised |-> FALSE]

\* variant: set_user_offline without its except clause
set_user_offline_result_uncaught(s, u, outcome) ==
  [s |-> RedisOutcome(s, set_user_offline(s, u), outcome),
   ret |-> outcome = "ok", raised |-> outcome # "ok"]

set_user_offline_result(s, u, outcome) ==
  [s |-> RedisOutcome(s, set_user_offline(s, u), outcome),
   ret |-> outcome = "ok", raised |-> FALSE]

\* update_last_seen has one command after its get: any failure leaves the state
update_last_seen_result(s, u, outcome) ==
  [s |-> IF outcome = "ok" THEN update_last_seen(s, u) ELSE s,
   ret |-> outcome = "ok", raised |-> FALSE]

\* ---- ConnectionManager: synchronous methods ----
\* variant: connect keeps a handle that is already registered (setdefault)
register_keeps_old(s, h, u) ==
  IF u \in DOMAIN s.ac THEN s ELSE [s EXCEPT !.ac = DictPut(s.ac, u, h)]

\* variant: a connect starts the user over without subscriptions
register_resets_subscriptions(s, h, u) ==
  [s EXCEPT !.ac = DictPut(s.ac, u, h),
            !.cs = [c \in DOMAIN s.cs |-> s.cs[c] \ {u}],
            !.us = DictRemove(s.us, u)]

register(s, h, u) == [s EXCEPT !.ac = DictPut(s.ac, u, h)]

\* variant: disconnect leaves the presence record alone
disconnect_keeps_presence(s, u) ==
  LET s1 == [s EXCEPT !.ac = DictRemove(s.ac, u)]
      chans == DictGet(s1.us, u, {})
  IN IF u \in DOMAIN s1.us
       THEN [s1 EXCEPT !.cs = [c \in DOMAIN s1.cs |->
                                 IF c \in chans THEN s1.cs[c] \ {u} ELSE s1.cs[c]],
                       !.us = DictRemove(s1.us, u)]
       ELSE s1

\* variant: disconnect deletes the whole subscriber set of each channel of u
disconnect_drops_channels(s, u) ==
  LET s1 == [s EXCEPT !.ac = DictRemove(s.ac, u)]
      s2 == set_user_offline(s1, u)
      chans == DictGet(s2.us, u, {})
  IN [s2 EXCEPT !.cs = [c \in (DOMAIN s2.cs) \ chans |-> s2.cs[c]],
                !.us = [v \in (DOMAIN s2.us) \ {u} |-> s2.us[v] \ chans]]

\* variant: disconnect drops the reverse index but leaves the channel sets alone
disconnect_keeps_channel_sets(s, u) ==
  LET s1 == [s EXCEPT !.ac = DictRemove(s.ac, u)]
      s2 == set_user_offline(s1, u)
  IN [s2 EXCEPT !.us = DictRemove(s2.us, u)]

\* disconnect(user_id) when the store answers set_user_offline with outcome;
\* an exception out of set_user_offline would leave the method at that line
disconnect_outcome(s, u, outcome) ==
  LET s1 == [s EXCEPT !.ac = DictRemove(s.ac, u)]
      r == set_user_offline_result(s1, u, outcome)
      s2 == r.s
      chans == DictGet(s2.us, u, {})
  IN IF r.raised THEN s2
     ELSE IF u \in DOMAIN s2.us
       THEN [s2 EXCEPT !.cs = [c \in DOMAIN s2.cs |->
                                 IF c \in chans THEN s2.cs[c] \ {u} ELSE s2.cs[c]],
                       !.us = DictRemove(s2.us, u)]
       ELSE s2

disconnect(s, u) == disconnect_outcome(s, u, "ok")

\* variant: subscribe flips the membership instead of adding it
subscribe_to_channel_toggles(s, u, c) ==
  LET had == u \in DictGet(s.cs, c, {})
      cs2 == DictPut(s.cs, c, IF had THEN s.cs[c] \ {u} ELSE DictGet(s.cs, c, {}) \cup {u})
      us2 == DictPut(s.us, u, IF had THEN DictGet(s.us, u, {}) \ {c}
                                     ELSE DictGet(s.us, u, {}) \cup {c})
  IN [s EXCEPT !.cs = cs2, !.us = us2]

\* variant: subscribe ignores a user that has no registered connection
subscribe_to_channel_needs_connection(s, u, c) ==
  IF u \notin DOMAIN s.ac THEN s
  ELSE [s EXCEPT !.cs = DictPut(s.cs, c, DictGet(s.cs, c, {}) \cup {u}),
                 !.us = DictPut(s.us, u, DictGet(s.us, u, {}) \cup {c})]

subscribe_to_channel(s, u, c) ==
  LET cs1 == IF c \in DOMAIN s.cs THEN s.cs ELSE DictPut(s.cs, c, {})
      cs2 == DictPut(cs1, c, cs1[c] \cup {u})
      us1 == IF u \in DOMAIN s.us THEN s.us ELSE DictPut(s.us, u, {})
      us2 == DictPut(us1, u, us1[u] \cup {c})
  IN [s EXCEPT !.cs = cs2, !.us = us2]

\* variant: only the user's own index forgets the channel
unsubscribe_from_channel_reverse_only(s, u, c) ==
  LET us1 == IF u \in DOMAIN s.us THEN DictPut(s.us, u, s.us[u] \ {c}) ELSE s.us
  IN [s EXCEPT !.us = us1]

unsubscribe_from_channel(s, u, c) ==
  LET cs1 == IF c \in DOMAIN s.cs THEN DictPut(s.cs, c, s.cs[c] \ {u}) ELSE s.cs
      us1 == IF u \in DOMAIN s.us THEN DictPut(s.us, u, s.us[u] \ {c}) ELSE s.us
  IN [s EXCEPT !.cs = cs1, !.us = us1]

get_connected_users(s) == DOMAIN s.ac
is_user_connected(s, u) == u \in DOMAIN s.ac

\* disconnect applied to each user of S (the calls commute: each touches only its own user)
RECURSIVE DisconnectAll(_, _)
DisconnectAll(s, S) ==
  IF S = {} THEN s
  ELSE LET u == CHOOSE x \in S : TRUE IN DisconnectAll(disconnect(s, u), S \ {u})

\* ---- runs of websocket_endpoint ----
\* user, handle  the arguments user_id and websocket
\* pc    "none" (not started) | "connecting" (inside manager.connect) |
\*       "open" (awaiting receive_text) | "pong" (awaiting send_text of the pong) |
\*       "closed" (the endpoint has returned)
\* gone  the transport has signalled the disconnect: the next receive_text raises
\* last  the kind of the inbound frame processed last
SessionIds == 1..MaxSessions
NoSessionRec ==
  [user |-> NoUser, handle |-> NoHandle, pc |-> "none", gone |-> FALSE, last |-> "none"]

\* no partner endpoint has answered yet
NoResponse == [op |-> "none", code |-> 0, detail |-> "none"]

\* ---- tasks ----
\* op    "connect" | "new_message" | "read_receipt" | "personal" | "none" (free slot)
\* user  connect: the connecting user; new_message: message_data["sender_id"];
\*       read_receipt: the user_id argument; personal: the addressee
\* pc    "idle" (free slot) | "send" (awaiting send_text) | "done" (returned) |
\*       "raised" (an exception left the coroutine)
\* prev  connect: the handle it overwrote in active_connections
\* snap  the copy the loop iterates over; rem: the part of it not yet visited
\* cur, curh  the recipient and the handle of the send_text in flight
\* att   the users send_text was called for
\* turn  the users that were registered when the loop visited them
\* fail  the users whose send_text raised
\* reconn  the users of fail that a later connect registered again
\* reader  read_receipt: the user who marked the message read
\* sess  connect: the run of websocket_endpoint that called it, if one did
\* online  connect: the online argument of broadcast_presence_change
Idle ==
  [op |-> "none", user |-> NoUser, chan |-> NoChannel, pc |-> "idle", prev |-> NoHandle,
   reader |-> NoUser, snap |-> {}, rem |-> {}, cur |-> NoUser, curh |-> NoHandle,
   att |-> {}, turn |-> {}, fail |-> {}, reconn |-> {}, sess |-> NoSession,
   online |-> FALSE]

NewTask(op, u, c) == [Idle EXCEPT !.op = op, !.user = u, !.chan = c, !.pc = "done"]

Slots == 1..MaxTasks
FreeSlot == CHOOSE t \in Slots : tasks[t].pc = "idle" /\ \A t2 \in 1..(t - 1) : tasks[t2].pc # "idle"
HasFreeSlot == \E t \in Slots : tasks[t].pc = "idle"

\* the handles of u that the registry or a coroutine still refers to
Referenced(u) ==
  (IF u \in DOMAIN active_connections THEN {active_connections[u]} ELSE {})
  \cup {tasks[t].curh : t \in {x \in Slots : tasks[x].cur = u}}
  \cup {tasks[t].prev : t \in {x \in Slots : tasks[x].op = "connect" /\ tasks[x].user = u}}
  \cup {sessions[k].handle : k \in {x \in DOMAIN sessions : sessions[x].user = u}}

\* the WebSocket object of a new connection of u: distinct from every handle in use
FreshHandle(u) ==
  CHOOSE k \in 1..(2 * MaxTasks + MaxSessions + 2) :
    /\ k \notin Referenced(u)
    /\ \A j \in 1..(k - 1) : j \in Referenced(u)

\* a started coroutine takes a slot when it is suspended at an await
Place(ts, tk) ==
  IF tk.pc = "done" THEN tasks' = ts
  ELSE HasFreeSlot /\ tasks' = [ts EXCEPT ![FreeSlot] = tk]

\* variant: broadcast_to_channel without the exclude_user test
Excluded_not_in_channel(tk, x) ==
  CASE tk.op = "connect" -> x = tk.user
    [] OTHER -> FALSE

\* variant: broadcast_presence_change without the user_id test
Excluded_not_in_presence(tk, x) ==
  CASE tk.op \in {"new_message", "read_receipt"} -> x = tk.user
    [] OTHER -> FALSE

\* the exclusion test of each loop
Excluded(tk, x) ==
  CASE tk.op = "connect" -> x = tk.user
    [] tk.op \in {"new_message", "read_receipt"} -> x = tk.user
    [] OTHER -> FALSE

\* the handle the loop body sends on
SendHandle(tk, s, x) == s.ac[x]

\* variant: the except branch only logs and leaves the registry alone
OnSendError_keeps_registration(tk, s) ==
  [tk |-> [tk EXCEPT !.fail = tk.fail \cup {tk.cur}], s |-> s]

\* variant: no try/except around send_text, the error leaves the coroutine
OnSendError_raises(tk, s) ==
  [tk |-> [tk EXCEPT !.pc = "raised", !.fail = tk.fail \cup {tk.cur}], s |-> s]

\* what a failed send_text does to the state and to the task: the except clause
\* logs, calls disconnect, and the loop goes on
OnSendError(tk, s) ==
  [tk |-> [tk EXCEPT !.fail = tk.fail \cup {tk.cur}], s |-> disconnect(s, tk.cur)]

\* In broadcast_presence_change a visited user that is not registered makes the
\* subscript raise KeyError inside the try block, and the handler calls
\* disconnect for it.  broadcast_to_channel tests membership and skips.
AfterSkip(tk, s, S) ==
  IF tk.op = "connect" THEN DisconnectAll(s, S) ELSE s

\* The loop starts on the copy.  Visiting an excluded user does nothing and
\* depends on nothing, so the model visits the excluded users first.
StartLoop(tk, copy, s) ==
  [tk EXCEPT !.snap = copy,
             !.rem = {x \in copy : ~Excluded(tk, x)},
             !.turn = {x \in copy : Excluded(tk, x) /\ x \in DOMAIN s.ac}]

\* Run the loop from its current position to the next await or to its end.
\* S is the set of users visited without an await before the next send.
Advance(tk, s) ==
  LET sendable == {x \in tk.rem : x \in DOMAIN s.ac}
      skippable == tk.rem \ sendable
  IN UNION {
       { [tk |-> [tk EXCEPT !.pc = "send", !.rem = tk.rem \ (S \cup {v}),
                            !.cur = v, !.curh = SendHandle(tk, s, v),
                            !.att = tk.att \cup {v},
                            !.turn = tk.turn \cup {v}],
          s |-> AfterSkip(tk, s, S)] : S \in SUBSET skippable }
       : v \in sendable }
     \cup
     IF sendable = {}
       THEN { [tk |-> [tk EXCEPT !.pc = "done", !.rem = {}, !.cur = NoUser, !.curh = NoHandle],
               s |-> AfterSkip(tk, s, tk.rem)] }
       ELSE {}

Init ==
  /\ active_connections = EmptyDict
  /\ channel_subscriptions = EmptyDict
  /\ user_subscriptions = EmptyDict
  /\ use_redis \in BOOLEAN
  /\ presence_data = EmptyDict
  /\ redis_presence = EmptyDict
  /\ redis_online_users = {}
  /\ now = 0
  /\ tasks = [t \in Slots |-> Idle]
  /\ sessions = [k \in SessionIds |-> NoSessionRec]
  /\ partner_requests = <<>>
  /\ partnerships = <<>>
  /\ response = NoResponse

\* ---- the calls ----
\* connect(websocket, user_id): nothing happens before websocket.accept() returns;
\* then register, set_user_online, broadcast_presence_change up to its first await
\* outcome: how the store answers set_user_online; an exception out of
\* set_user_online would leave connect before the broadcast
ConnectWith(u, k, outcome) ==
  LET r == set_user_online_result(register(St, FreshHandle(u), u), u, outcome)
      s1 == r.s
      tk0 == [NewTask("connect", u, NoChannel) EXCEPT
                !.prev = DictGet(active_connections, u, NoHandle), !.sess = k,
                !.online = TRUE]
      ts == [t \in Slots |->
               IF u \in tasks[t].fail
                 THEN [tasks[t] EXCEPT !.reconn = tasks[t].reconn \cup {u}]
                 ELSE tasks[t]]
  IN IF r.raised
       THEN /\ Place(ts, [tk0 EXCEPT !.pc = "raised"])
            /\ SetSt(s1)
       ELSE \E o \in Advance(StartLoop(tk0, DOMAIN s1.ac, s1), s1) :
              /\ Place(ts, o.tk)
              /\ SetSt(o.s)

Connect(u, k) == ConnectWith(u, k, "ok")

\* a call of connect that is not followed in a run of websocket_endpoint
ConnectCall(u) ==
  /\ Connect(u, NoSession)
  /\ UNCHANGED <<use_redis, db_vars, now, sessions>>

\* broadcast_to_channel(message, channel_id, exclude_user) up to its first await
BroadcastStart(tk0, c) ==
  /\ IF c \notin DOMAIN channel_subscriptions
       THEN /\ Place(tasks, tk0)
            /\ SetSt(St)
       ELSE \E o \in Advance(StartLoop(tk0, channel_subscriptions[c], St), St) :
              /\ Place(tasks, o.tk)
              /\ SetSt(o.s)
  /\ UNCHANGED <<use_redis, db_vars, now, sessions>>

\* broadcast_new_message(message_data, channel_id), sender = message_data["sender_id"]
BroadcastNewMessageCall(sender, c) ==
  BroadcastStart(NewTask("new_message", sender, c), c)

\* mark_message_read(message_id) by reader, for a stored message with this sender
\* and channel: broadcast_read_receipt(message_id, message.sender_id, message.channel_id).
\* The handler has no input that names the reader; the task only remembers it.
MarkMessageReadCall(sender, c, reader) ==
  BroadcastStart([NewTask("read_receipt", sender, c) EXCEPT !.reader = reader], c)

\* send_personal_message(message, user_id)
SendPersonalCall(u) ==
  /\ LET tk0 == NewTask("personal", u, NoChannel)
     IN IF u \in DOMAIN active_connections
          THEN Place(tasks, [tk0 EXCEPT !.pc = "send", !.snap = {u}, !.cur = u,
                                        !.curh = active_connections[u],
                                        !.att = {u}, !.turn = {u}])
          ELSE Place(tasks, tk0)
  /\ UNCHANGED <<active_connections, channel_subscriptions, user_subscriptions,
                 use_redis, db_vars, presence_data, redis_presence, redis_online_users, now, sessions>>

\* the send_text in flight returns
SendOk(t) ==
  /\ tasks[t].pc = "send"
  /\ \E o \in Advance([tasks[t] EXCEPT !.cur = NoUser, !.curh = NoHandle], St) :
       /\ tasks' = [tasks EXCEPT ![t] = o.tk]
       /\ SetSt(o.s)
  /\ UNCHANGED <<use_redis, db_vars, now, sessions>>

\* the send_text in flight raises
SendFail(t) ==
  /\ tasks[t].pc = "send"
  /\ LET e == OnSendError(tasks[t], St)
     IN IF e.tk.pc = "raised"
          THEN /\ tasks' = [tasks EXCEPT ![t] = e.tk]
               /\ SetSt(e.s)
          ELSE \E o \in Advance([e.tk EXCEPT !.cur = NoUser, !.curh = NoHandle], e.s) :
                 /\ tasks' = [tasks EXCEPT ![t] = o.tk]
                 /\ SetSt(o.s)
  /\ UNCHANGED <<use_redis, db_vars, now, sessions>>

\* the caller of a finished coroutine goes on; its frame is gone
Return(t) ==
  /\ tasks[t].pc \in {"done", "raised"}
  /\ tasks' = [tasks EXCEPT ![t] = Idle]
  /\ UNCHANGED <<active_connections, channel_subscriptions, user_subscriptions,
                 use_redis, db_vars, presence_data, redis_presence, redis_online_users, now, sessions>>

DisconnectCall(u) ==
  /\ SetSt(disconnect(St, u))
  /\ UNCHANGED <<use_redis, db_vars, now, tasks, sessions>>

SubscribeCall(u, c) ==
  /\ SetSt(subscribe_to_channel(St, u, c))
  /\ UNCHANGED <<use_redis, db_vars, now, tasks, sessions>>

UnsubscribeCall(u, c) ==
  /\ SetSt(unsubscribe_from_channel(St, u, c))
  /\ UNCHANGED <<use_redis, db_vars, now, tasks, sessions>>

\* every call of the manager, with messages of any stored user
Next ==
  \/ \E u \in WsUsers : ConnectCall(u)
  \/ \E u \in Users, c \in Channels : BroadcastNewMessageCall(u, c)
  \/ \E u \in Users, c \in Channels, r \in Users : MarkMessageReadCall(u, c, r)
  \/ \E u \in WsUsers : SendPersonalCall(u)
  \/ \E t \in Slots : SendOk(t)
  \/ \E t \in Slots : SendFail(t)
  \/ \E t \in Slots : Return(t)
  \/ \E u \in WsUsers : DisconnectCall(u)
  \/ \E u \in WsUsers, c \in Channels : SubscribeCall(u, c)
  \/ \E u \in WsUsers, c \in Channels : UnsubscribeCall(u, c)

Spec == Init /\ [][Next]_vars

\* connections only: every user connects and disconnects, nobody subscribes
NextConnect ==
  \/ \E u \in Users : ConnectCall(u)
  \/ \E t \in Slots : SendOk(t)
  \/ \E t \in Slots : SendFail(t)
  \/ \E t \in Slots : Return(t)
  \/ \E u \in Users : DisconnectCall(u)

SpecConnect == Init /\ [][NextConnect]_vars

\* ---- the manager over a store that fails ----
FaultyConnectCall(u, outcome) ==
  /\ outcome \in Outcomes
  /\ ConnectWith(u, NoSession, outcome)
  /\ UNCHANGED <<use_redis, db_vars, now, sessions>>

FaultyDisconnectCall(u, outcome) ==
  /\ outcome \in Outcomes
  /\ SetSt(disconnect_outcome(St, u, outcome))
  /\ UNCHANGED <<use_redis, db_vars, now, tasks, sessions>>

NextFaulty ==
  \/ \E u \in WsUsers, o \in {"ok", "first", "second"} : FaultyConnectCall(u, o)
  \/ \E t \in Slots : SendOk(t)
  \/ \E t \in Slots : SendFail(t)
  \/ \E t \in Slots : Return(t)
  \/ \E u \in WsUsers, o \in {"ok", "first", "second"} : FaultyDisconnectCall(u, o)
  \/ \E u \in WsUsers, c \in Channels : SubscribeCall(u, c)

SpecFaulty == Init /\ [][NextFaulty]_vars

\* ---- a peer that stalls ----
\* the users whose transport takes no more data: a send_text to them is
\* awaited for ever, it neither returns nor raises
Stalled == {1}

StalledSend(t) == tasks[t].pc = "send" /\ tasks[t].cur \in Stalled

NextStall ==
  \/ \E u \in WsUsers : ConnectCall(u)
  \/ \E u \in WsUsers, c \in Channels : SubscribeCall(u, c)
  \/ \E u \in Users, c \in Channels : BroadcastNewMessageCall(u, c)
  \/ \E t \in Slots : ~StalledSend(t) /\ SendOk(t)
  \/ \E t \in Slots : ~StalledSend(t) /\ SendFail(t)
  \/ \E t \in Slots : Return(t)

\* every send_text that is not to a stalled peer ends, and its coroutine goes on
StallFairness ==
  \A t \in Slots : WF_vars(~StalledSend(t) /\ (SendOk(t) \/ SendFail(t)))

SpecStall == Init /\ [][NextStall]_vars /\ StallFairness

\* ---- partner requests ----
HTTP_200_OK == 200
HTTP_201_CREATED == 201
HTTP_400_BAD_REQUEST == 400
HTTP_404_NOT_FOUND == 404

\* RequestStatus
PENDING == "pending"
ACCEPTED == "accepted"
REJECTED == "rejected"

\* the rows of the table users; an id outside it finds no user
DbUsers == Users
UserIds == 0..NumUsers
RequestIds == 0..MaxRequests
Actions == {"accept", "reject", "cancel"}

\* the two tables as one value, threaded through the handlers
Db == [requests |-> partner_requests, partnerships |-> partnerships]

\* an HTTPException: nothing is committed
Refuse(db, code, detail) == [db |-> db, code |-> code, detail |-> detail]

\* the query for a pending request of this sender to this recipient finds a row
existing_request(db, sender_id, recipient_id) ==
  \E i \in DOMAIN db.requests :
    /\ db.requests[i].sender_id = sender_id
    /\ db.requests[i].recipient_id = recipient_id
    /\ db.requests[i].status = PENDING

\* variant: the handler does not look for a pending request
create_partner_request_unchecked(db, sender_id, recipient_id) ==
  IF sender_id \notin DbUsers THEN Refuse(db, HTTP_404_NOT_FOUND, "sender")
  ELSE IF recipient_id \notin DbUsers THEN Refuse(db, HTTP_404_NOT_FOUND, "recipient")
  ELSE IF sender_id = recipient_id THEN Refuse(db, HTTP_400_BAD_REQUEST, "self")
  ELSE [db |-> [db EXCEPT !.requests =
                  Append(@, [sender_id |-> sender_id, recipient_id |-> recipient_id,
                             status |-> PENDING])],
        code |-> HTTP_201_CREATED, detail |-> "created"]

create_partner_request(db, sender_id, recipient_id) ==
  IF sender_id \notin DbUsers THEN Refuse(db, HTTP_404_NOT_FOUND, "sender")
  ELSE IF recipient_id \notin DbUsers THEN Refuse(db, HTTP_404_NOT_FOUND, "recipient")
  ELSE IF sender_id = recipient_id THEN Refuse(db, HTTP_400_BAD_REQUEST, "self")
  ELSE IF existing_request(db, sender_id, recipient_id)
    THEN Refuse(db, HTTP_400_BAD_REQUEST, "exists")
  ELSE [db |-> [db EXCEPT !.requests =
                  Append(@, [sender_id |-> sender_id, recipient_id |-> recipient_id,
                             status |-> PENDING])],
        code |-> HTTP_201_CREATED, detail |-> "created"]

\* the rows an accepted or a rejected request leaves
Respond(db, request_id, action) ==
  IF action = "accept"
    THEN [db |-> [db EXCEPT !.requests[request_id].status = ACCEPTED,
                            !.partnerships =
                              Append(@, [user_a_id |-> db.requests[request_id].sender_id,
                                         user_b_id |-> db.requests[request_id].recipient_id])],
          code |-> HTTP_200_OK, detail |-> "accepted"]
    ELSE [db |-> [db EXCEPT !.requests[request_id].status = REJECTED],
          code |-> HTTP_200_OK, detail |-> "rejected"]

\* variant: a request that was answered can be answered again
respond_to_request_again(db, request_id, action) ==
  IF request_id \notin DOMAIN db.requests THEN Refuse(db, HTTP_404_NOT_FOUND, "request")
  ELSE IF action \notin {"accept", "reject"} THEN Refuse(db, HTTP_400_BAD_REQUEST, "action")
  ELSE Respond(db, request_id, action)

\* variant: only an accept looks at the status, so an accepted request can
\* still be rejected
respond_to_request_rejects_late(db, request_id, action) ==
  IF request_id \notin DOMAIN db.requests THEN Refuse(db, HTTP_404_NOT_FOUND, "request")
  ELSE IF action \notin {"accept", "reject"} THEN Refuse(db, HTTP_400_BAD_REQUEST, "action")
  ELSE IF action = "accept" /\ db.requests[request_id].status # PENDING
    THEN Refuse(db, HTTP_400_BAD_REQUEST, "responded")
  ELSE Respond(db, request_id, action)

respond_to_request(db, request_id, action) ==
  IF request_id \notin DOMAIN db.requests THEN Refuse(db, HTTP_404_NOT_FOUND, "request")
  ELSE IF action \notin {"accept", "reject"} THEN Refuse(db, HTTP_400_BAD_REQUEST, "action")
  ELSE IF db.requests[request_id].status # PENDING
    THEN Refuse(db, HTTP_400_BAD_REQUEST, "responded")
  ELSE Respond(db, request_id, action)

\* a handler runs from its call to its answer without an await
Answer(op, o) ==
  /\ partner_requests' = o.db.requests
  /\ partnerships' = o.db.partnerships
  /\ response' = [op |-> op, code |-> o.code, detail |-> o.detail]
  /\ UNCHANGED <<active_connections, channel_subscriptions, user_subscriptions,
                 use_redis, presence_data, redis_presence, redis_online_users,
                 now, tasks, sessions>>

CreatePartnerRequestCall(sender_id, recipient_id) ==
  LET o == create_partner_request(Db, sender_id, recipient_id)
  IN /\ Len(o.db.requests) <= MaxRequests
     /\ Answer("create", o)

RespondToRequestCall(request_id, action) ==
  Answer("respond", respond_to_request(Db, request_id, action))

NextPartner ==
  \/ \E a \in UserIds, b \in UserIds : CreatePartnerRequestCall(a, b)
  \/ \E i \in RequestIds, a \in Actions : RespondToRequestCall(i, a)

SpecPartner == Init /\ [][NextPartner]_vars

\* ---- inbound frames of websocket_endpoint ----
\* the value of message_data.get("channel_id"): the key is absent, or it holds
\* null, an integer, a non-empty string, or a non-empty list
CidValues ==
  {[k |-> x, v |-> 0] : x \in {"absent", "null", "str", "list"}}
    \cup {[k |-> "int", v |-> n] : n \in 0..NumChannels}

\* `if channel_id:`
Truthy(cid) == (cid.k = "int" /\ cid.v # 0) \/ cid.k \in {"str", "list"}

\* `channel_id in self.channel_subscriptions` raises TypeError for a list
Hashable(cid) == cid.k # "list"

\* the dict key a channel_id makes; a string is a key that no integer equals
StrChannel == NumChannels + 1
ChannelKey(cid) == IF cid.k = "int" THEN cid.v ELSE StrChannel

\* parse: json.loads raises ("error"), gives a value that is no object
\* ("array"), or gives an object; type: message_data.get("type")
NoCid == [k |-> "absent", v |-> 0]
Frames ==
  {[parse |-> x, type |-> "absent", cid |-> NoCid] : x \in {"error", "array"}}
    \cup {[parse |-> "object", type |-> x, cid |-> NoCid] : x \in {"ping", "frobnicate", "absent"}}
    \cup {[parse |-> "object", type |-> x, cid |-> c] :
            x \in {"subscribe_channel", "unsubscribe_channel"}, c \in CidValues}

\* variant: a ping refreshes last_seen but is not answered
HandleFrame_ping_silent(s, u, f) ==
  CASE f.parse = "object" /\ f.type = "subscribe_channel" /\ Truthy(f.cid) /\ Hashable(f.cid) ->
         [s |-> subscribe_to_channel(s, u, ChannelKey(f.cid)), reply |-> "none"]
    [] f.parse = "object" /\ f.type = "unsubscribe_channel" /\ Truthy(f.cid) /\ Hashable(f.cid) ->
         [s |-> unsubscribe_from_channel(s, u, ChannelKey(f.cid)), reply |-> "none"]
    [] f.parse = "object" /\ f.type = "ping" ->
         [s |-> update_last_seen(s, u), reply |-> "none"]
    [] OTHER -> [s |-> s, reply |-> "none"]

\* variant: a frame that is no JSON is answered with an error frame
HandleFrame_answers_errors(s, u, f) ==
  CASE f.parse = "error" -> [s |-> s, reply |-> "error"]
    [] f.parse = "object" /\ f.type = "subscribe_channel" /\ Truthy(f.cid) /\ Hashable(f.cid) ->
         [s |-> subscribe_to_channel(s, u, ChannelKey(f.cid)), reply |-> "none"]
    [] f.parse = "object" /\ f.type = "unsubscribe_channel" /\ Truthy(f.cid) /\ Hashable(f.cid) ->
         [s |-> unsubscribe_from_channel(s, u, ChannelKey(f.cid)), reply |-> "none"]
    [] f.parse = "object" /\ f.type = "ping" ->
         [s |-> update_last_seen(s, u), reply |-> "pong"]
    [] OTHER -> [s |-> s, reply |-> "none"]

\* the body of the receive loop for one frame of user u: the state it leaves
\* and the frame it sends back on its own websocket
HandleFrame(s, u, f) ==
  CASE f.parse = "error" -> [s |-> s, reply |-> "none"]
    [] f.parse = "array" -> [s |-> s, reply |-> "none"]
    [] f.parse = "object" /\ f.type = "subscribe_channel" ->
         [s |-> IF Truthy(f.cid) /\ Hashable(f.cid)
                  THEN subscribe_to_channel(s, u, ChannelKey(f.cid)) ELSE s,
          reply |-> "none"]
    [] f.parse = "object" /\ f.type = "unsubscribe_channel" ->
         [s |-> IF Truthy(f.cid) /\ Hashable(f.cid)
                  THEN unsubscribe_from_channel(s, u, ChannelKey(f.cid)) ELSE s,
          reply |-> "none"]
    [] f.parse = "object" /\ f.type = "ping" ->
         [s |-> update_last_seen(s, u), reply |-> "pong"]
    [] OTHER -> [s |-> s, reply |-> "none"]

\* ---- websocket_endpoint ----
\* await manager.connect(websocket, user_id), up to the first await of the broadcast
SessionConnect(k, u) ==
  /\ sessions[k].pc = "none"
  /\ \A j \in 1..(k - 1) : sessions[j].pc # "none"
  /\ Connect(u, k)
  /\ sessions' = [sessions EXCEPT ![k] =
                    [user |-> u, handle |-> FreshHandle(u),
                     pc |-> IF \E t \in Slots : tasks'[t].sess = k
                              THEN "connecting" ELSE "open",
                     gone |-> FALSE, last |-> "none"]]
  /\ UNCHANGED <<use_redis, db_vars, now>>

\* manager.connect returns and the endpoint enters its receive loop
ConnectReturns(t) ==
  /\ tasks[t].pc = "done"
  /\ tasks[t].sess # NoSession
  /\ tasks' = [tasks EXCEPT ![t] = Idle]
  /\ sessions' = [sessions EXCEPT ![tasks[t].sess].pc = "open"]
  /\ UNCHANGED <<active_connections, channel_subscriptions, user_subscriptions,
                 use_redis, db_vars, presence_data, redis_presence, redis_online_users, now>>

\* variant: a frame is taken while the reply to the one before is still awaited
ReceiveFrame_concurrent(k, f) ==
  /\ sessions[k].pc \in {"open", "pong"}
  /\ ~sessions[k].gone
  /\ LET r == HandleFrame(St, sessions[k].user, f)
     IN /\ SetSt(r.s)
        /\ sessions' = [sessions EXCEPT
                          ![k].pc = IF r.reply = "pong" THEN "pong" ELSE "open",
                          ![k].last = IF f.parse = "object" THEN f.type ELSE f.parse]
  /\ UNCHANGED <<use_redis, db_vars, now, tasks>>

\* receive_text returns a frame, which the loop body handles up to its await
ReceiveFrame(k, f) ==
  /\ sessions[k].pc = "open"
  /\ ~sessions[k].gone
  /\ LET r == HandleFrame(St, sessions[k].user, f)
     IN /\ SetSt(r.s)
        /\ sessions' = [sessions EXCEPT
                          ![k].pc = IF r.reply = "pong" THEN "pong" ELSE "open",
                          ![k].last = IF f.parse = "object" THEN f.type ELSE f.parse]
  /\ UNCHANGED <<use_redis, db_vars, now, tasks>>

\* the send_text of the pong returns, or raises into `except Exception`, which logs
PongEnds(k) ==
  /\ sessions[k].pc = "pong"
  /\ sessions' = [sessions EXCEPT ![k].pc = "open"]
  /\ UNCHANGED <<active_connections, channel_subscriptions, user_subscriptions,
                 use_redis, db_vars, presence_data, redis_presence, redis_online_users, now, tasks>>

\* the peer goes away: the transport queues the disconnect for the endpoint
TransportSignal(k) ==
  /\ sessions[k].pc \in {"connecting", "open", "pong"}
  /\ ~sessions[k].gone
  /\ sessions' = [sessions EXCEPT ![k].gone = TRUE]
  /\ UNCHANGED <<active_connections, channel_subscriptions, user_subscriptions,
                 use_redis, db_vars, presence_data, redis_presence, redis_online_users, now, tasks>>

\* variant: the except clause also announces the user offline
ReceiveDisconnect_announces(k) ==
  /\ sessions[k].pc = "open"
  /\ sessions[k].gone
  /\ LET s1 == disconnect(St, sessions[k].user)
         tk0 == NewTask("connect", sessions[k].user, NoChannel)
     IN \E o \in Advance(StartLoop(tk0, DOMAIN s1.ac, s1), s1) :
          /\ Place(tasks, o.tk)
          /\ SetSt(o.s)
  /\ sessions' = [sessions EXCEPT ![k].pc = "closed"]
  /\ UNCHANGED <<use_redis, db_vars, now>>

\* receive_text raises WebSocketDisconnect: manager.disconnect(user_id), return
ReceiveDisconnect(k) ==
  /\ sessions[k].pc = "open"
  /\ sessions[k].gone
  /\ SetSt(disconnect(St, sessions[k].user))
  /\ sessions' = [sessions EXCEPT ![k].pc = "closed"]
  /\ UNCHANGED <<use_redis, db_vars, now, tasks>>

NextSession ==
  \/ \E k \in SessionIds, u \in WsUsers : SessionConnect(k, u)
  \/ \E t \in Slots : SendOk(t)
  \/ \E t \in Slots : SendFail(t)
  \/ \E t \in Slots : ConnectReturns(t)
  \/ \E k \in SessionIds, f \in Frames : ReceiveFrame(k, f)
  \/ \E k \in SessionIds : PongEnds(k)
  \/ \E k \in SessionIds : TransportSignal(k)
  \/ \E k \in SessionIds : ReceiveDisconnect(k)

SpecSession == Init /\ [][NextSession]_vars

\* connecting, pinging and closing only: no session subscribes
PingFrame == [parse |-> "object", type |-> "ping", cid |-> NoCid]

NextClose ==
  \/ \E k \in SessionIds, u \in WsUsers : SessionConnect(k, u)
  \/ \E t \in Slots : SendOk(t)
  \/ \E t \in Slots : SendFail(t)
  \/ \E t \in Slots : ConnectReturns(t)
  \/ \E k \in SessionIds : ReceiveFrame(k, PingFrame)
  \/ \E k \in SessionIds : PongEnds(k)
  \/ \E k \in SessionIds : TransportSignal(k)
  \/ \E k \in SessionIds : ReceiveDisconnect(k)

\* a coroutine that can run is run: the event loop starves none
SessionFairness ==
  /\ \A t \in Slots : WF_vars(SendOk(t) \/ SendFail(t))
  /\ \A t \in Slots : WF_vars(ConnectReturns(t))
  /\ \A k \in SessionIds : WF_vars(PongEnds(k))
  /\ \A k \in SessionIds : WF_vars(ReceiveDisconnect(k))

SpecClose == Init /\ [][NextClose]_vars /\ SessionFairness

\* ---- PresenceService called directly, and the clock ----
\* The instants at which the clock is read: just before and at the end of the
\* online ttl of a record written at 0, the same for a record refreshed just
\* before that end, and the end of the offline ttl of records written at 0
\* and at ONLINE_TTL.
Instants ==
  {ONLINE_TTL - 1, ONLINE_TTL, 2 * ONLINE_TTL - 1, OFFLINE_TTL, OFFLINE_TTL + ONLINE_TTL}

SetOnlineCall(u, outcome) ==
  /\ outcome \in Outcomes
  /\ SetSt(RedisOutcome(St, set_user_online(St, u), outcome))
  /\ UNCHANGED <<use_redis, db_vars, now, tasks, sessions>>

SetOfflineCall(u, outcome) ==
  /\ outcome \in Outcomes
  /\ SetSt(RedisOutcome(St, set_user_offline(St, u), outcome))
  /\ UNCHANGED <<use_redis, db_vars, now, tasks, sessions>>

\* update_last_seen has one command after its get: "second" is that setex raising
UpdateLastSeenCall(u, outcome) ==
  /\ outcome \in Outcomes
  /\ SetSt(IF outcome = "ok" THEN update_last_seen(St, u) ELSE St)
  /\ UNCHANGED <<use_redis, db_vars, now, tasks, sessions>>

Tick(t) ==
  /\ t > now
  /\ now' = t
  /\ UNCHANGED <<active_connections, channel_subscriptions, user_subscriptions,
                 use_redis, db_vars, presence_data, redis_presence, redis_online_users,
                 tasks, sessions>>

NextPresence ==
  \/ \E u \in WsUsers, o \in {"ok", "first", "second"} : SetOnlineCall(u, o)
  \/ \E u \in WsUsers, o \in {"ok", "first", "second"} : SetOfflineCall(u, o)
  \/ \E u \in WsUsers, o \in {"ok", "first", "second"} : UpdateLastSeenCall(u, o)
  \/ \E t \in Instants : Tick(t)

SpecPresence == Init /\ [][NextPresence]_vars

\* ---- sessions and the clock ----
\* connecting, pinging and closing while time passes; the store does not fail
NextKeepalive ==
  \/ NextClose
  \/ \E t \in Instants : Tick(t)

SpecKeepalive == Init /\ [][NextKeepalive]_vars

\* ---- identifiers at the boundary ----
\* user_id is the path parameter of /chat/ws/{user_id}, declared int: any
\* integer is let through.  channel_id is whatever the frame carries.
NegativeId == 0 - 1
PathUserIds == {NegativeId, 1}
BoundaryFrames ==
  {[parse |-> "object", type |-> x, cid |-> c] :
     x \in {"subscribe_channel", "unsubscribe_channel"},
     c \in {NoCid} \cup {[k |-> "int", v |-> n] : n \in {NegativeId, 1}}}

NextBoundary ==
  \/ \E k \in SessionIds, u \in PathUserIds : SessionConnect(k, u)
  \/ \E t \in Slots : SendOk(t)
  \/ \E t \in Slots : SendFail(t)
  \/ \E t \in Slots : ConnectReturns(t)
  \/ \E k \in SessionIds, f \in BoundaryFrames : ReceiveFrame(k, f)
  \/ \E k \in SessionIds : TransportSignal(k)
  \/ \E k \in SessionIds : ReceiveDisconnect(k)

SpecBoundary == Init /\ [][NextBoundary]_vars

\* ---- the two backends side by side ----
\* One PresenceService on Redis and one on the in-memory dict receive the same
\* calls; no call fails, and the clock stays short of the online ttl, so no
\* key expires.
BothSetOnline(u) ==
  /\ SetSt(set_user_online_on(FALSE, set_user_online_on(TRUE, St, u), u))
  /\ UNCHANGED <<use_redis, db_vars, now, tasks, sessions>>

BothSetOffline(u) ==
  /\ SetSt(set_user_offline_on(FALSE, set_user_offline_on(TRUE, St, u), u))
  /\ UNCHANGED <<use_redis, db_vars, now, tasks, sessions>>

BothUpdateLastSeen(u) ==
  /\ SetSt(update_last_seen_on(FALSE, update_last_seen_on(TRUE, St, u), u))
  /\ UNCHANGED <<use_redis, db_vars, now, tasks, sessions>>

EarlyInstants == {t \in Instants : t < ONLINE_TTL}

NextBackends ==
  \/ \E u \in Users : BothSetOnline(u)
  \/ \E u \in Users : BothSetOffline(u)
  \/ \E u \in Users : BothUpdateLastSeen(u)
  \/ \E t \in EarlyInstants : Tick(t)

SpecBackends == Init /\ [][NextBackends]_vars

TypeOK ==
  /\ DOMAIN active_connections \subseteq Users
  /\ DOMAIN channel_subscriptions \subseteq Channels \cup {StrChannel}
  /\ DOMAIN user_subscriptions \subseteq Users

\* ---- reading the registry ----
Subscribers(s, c) == DictGet(s.cs, c, {})
ChannelsOf(s, u) == DictGet(s.us, u, {})
HandleOf(s, u) == DictGet(s.ac, u, NoHandle)

\* a send_text call is made in this step by the coroutine of slot t
StartsSend(t) ==
  /\ tasks'[t].pc = "send"
  /\ tasks[t].pc = "idle" \/ tasks'[t].cur \notin tasks[t].att

\* ---- C1 ----
\* C1: in every reachable state, for every user u and channel c, u is in
\* channel_subscriptions[c] if and only if c is in user_subscriptions[u].
C1_IndexesAgree ==
  \A u \in Users, c \in Channels :
    u \in Subscribers(St, c) <=> c \in ChannelsOf(St, u)

\* a failed send has unregistered one user while another user keeps an edge
C1_Witness ==
  \E t \in Slots, u \in Users, v \in Users, c \in Channels :
    /\ u \in tasks[t].fail /\ u \notin DOMAIN user_subscriptions
    /\ v # u /\ v \in Subscribers(St, c) /\ c \in ChannelsOf(St, v)

\* ---- C2 ----
\* C2: a connect for u makes its own handle the one registered handle of u, in
\* place of any handle registered before, and every send_text to u is called on
\* the handle registered for u at that moment, so never on a replaced one.
C2_SecondConnectWins ==
  [][ /\ \A u \in Users :
           ConnectCall(u) =>
             /\ u \in DOMAIN active_connections'
             /\ active_connections'[u] = FreshHandle(u)
             /\ active_connections'[u] # HandleOf(St, u)
      /\ \A t \in Slots :
           StartsSend(t) =>
             /\ tasks'[t].cur \in DOMAIN active_connections'
             /\ tasks'[t].curh = active_connections'[tasks'[t].cur]
    ]_vars

\* a connect of a registered user is announcing itself: the registry holds the
\* new handle, not the one it found
C2_Witness ==
  \E t \in Slots :
    /\ tasks[t].op = "connect" /\ tasks[t].pc = "send"
    /\ tasks[t].prev # NoHandle
    /\ tasks[t].user \in DOMAIN active_connections
    /\ active_connections[tasks[t].user] # tasks[t].prev

\* ---- C3 ----
\* C3: broadcast_new_message iterates over the subscriber set of c as it is when
\* the broadcast starts, and calls send_text exactly for the visited users that
\* were registered at their turn and are not the sender; never for the sender.
C3_NewMessageRecipients ==
  [][ \A t \in Slots :
        tasks'[t].op = "new_message" =>
          /\ tasks[t].pc = "idle" => tasks'[t].snap = Subscribers(St, tasks'[t].chan)
          /\ tasks'[t].att = {u \in tasks'[t].snap \ tasks'[t].rem :
                                 u \in tasks'[t].turn /\ u # tasks'[t].user}
          /\ tasks'[t].user \notin tasks'[t].att
    ]_vars

\* a finished broadcast whose sender was subscribed and connected, and which
\* reached somebody else
C3_Witness ==
  \E t \in Slots :
    /\ tasks[t].op = "new_message" /\ tasks[t].pc = "done"
    /\ tasks[t].user \in tasks[t].snap /\ tasks[t].user \in tasks[t].turn
    /\ tasks[t].att # {}

\* the users a loop has visited and found registered, the excluded one aside
Recipients(tk) ==
  {u \in tk.snap \ tk.rem : u \in tk.turn /\ ~Excluded(tk, u)}

\* ---- C4 ----
\* C4: the read_receipt broadcast of mark_message_read calls send_text for the
\* visited subscribers that are registered at their turn, the user who read the
\* message excepted, and never for that reader.
C4_ReaderExcluded ==
  \A t \in Slots :
    tasks[t].op = "read_receipt" =>
      /\ tasks[t].att = {u \in tasks[t].snap \ tasks[t].rem :
                            u \in tasks[t].turn /\ u # tasks[t].reader}
      /\ tasks[t].reader \notin tasks[t].att

\* ---- C5 ----
\* C5 (as stated): when connect(h, A) has finished, send_text was called for
\* every user other than A that was registered when the broadcast began.
C5_AllRegisteredAtStart ==
  \A t \in Slots :
    tasks[t].op = "connect" /\ tasks[t].pc = "done" =>
      tasks[t].att = tasks[t].snap \ {tasks[t].user}

\* C5 (amended): connect(h, A) iterates over the users registered when the
\* broadcast begins, A among them, and calls send_text exactly for the visited
\* users other than A that are still registered at their turn, each on the
\* handle registered for it then; never on a handle of A.
C5_PresenceRecipients ==
  [][ \A t \in Slots :
        tasks'[t].op = "connect" =>
          /\ tasks[t].pc = "idle" =>
               /\ tasks'[t].snap = get_connected_users([ac |-> active_connections'])
               /\ tasks'[t].user \in tasks'[t].snap
          /\ tasks'[t].att = {u \in tasks'[t].snap \ tasks'[t].rem :
                                 u \in tasks'[t].turn /\ u # tasks'[t].user}
          /\ tasks'[t].user \notin tasks'[t].att
          /\ StartsSend(t) =>
               /\ tasks'[t].cur # tasks'[t].user
               /\ tasks'[t].curh = HandleOf(St, tasks'[t].cur)
    ]_vars

\* a finished connect that reached one user and passed over another one, which
\* had left the registry before its turn
C5_Witness ==
  \E t \in Slots :
    /\ tasks[t].op = "connect" /\ tasks[t].pc = "done"
    /\ tasks[t].att # {}
    /\ (tasks[t].snap \ {tasks[t].user}) \ tasks[t].att # {}

\* ---- C6 ----
\* C6: when a call in which a send to u failed has returned and no connect for
\* u was made since the failure, is_user_connected(u) is false and u is not in
\* get_connected_users().
C6_FailedRecipientUnregistered ==
  \A t \in Slots :
    tasks[t].pc = "done" =>
      \A u \in tasks[t].fail \ tasks[t].reconn :
        /\ ~is_user_connected(St, u)
        /\ u \notin get_connected_users(St)

\* a returned call with a failed recipient that did not connect again, next to
\* a user that is still registered
C6_Witness ==
  \E t \in Slots :
    /\ tasks[t].pc = "done"
    /\ tasks[t].fail \ tasks[t].reconn # {}
    /\ get_connected_users(St) # {}

\* ---- C7 ----
\* C7: no broadcast ends by raising a send failure to its caller, and a
\* broadcast in which a send failed still visits every user of its snapshot and
\* calls send_text for each one that is registered at its turn and not excluded.
C7_FailureContained ==
  \A t \in Slots :
    /\ tasks[t].pc # "raised"
    /\ tasks[t].pc = "done" /\ tasks[t].fail # {} =>
         /\ tasks[t].rem = {}
         /\ Recipients(tasks[t]) \subseteq tasks[t].att

\* after a failed send the same broadcast has gone on to another recipient,
\* and has finished
C7_Witness ==
  \E t \in Slots :
    /\ tasks[t].op \in {"connect", "new_message", "read_receipt"}
    /\ tasks[t].pc = "done"
    /\ tasks[t].fail # {}
    /\ tasks[t].att \ tasks[t].fail # {}

\* ---- C8 ----
\* C8: from every reachable state and for every user and channel, subscribing
\* twice gives the registry that subscribing once gives, and unsubscribing
\* twice gives the registry that unsubscribing once gives.
C8_Idempotent ==
  \A u \in Users, c \in Channels :
    /\ subscribe_to_channel(subscribe_to_channel(St, u, c), u, c)
         = subscribe_to_channel(St, u, c)
    /\ unsubscribe_from_channel(unsubscribe_from_channel(St, u, c), u, c)
         = unsubscribe_from_channel(St, u, c)

\* one user has unsubscribed from its only channel, which leaves it an empty
\* entry, and another user is subscribed
C8_Witness ==
  \E u \in Users, v \in Users, c \in Channels :
    /\ u \in DOMAIN user_subscriptions /\ user_subscriptions[u] = {}
    /\ v \in DOMAIN user_subscriptions /\ c \in user_subscriptions[v]

\* the presence record of u says offline
RecordedOffline(s, u) ==
  \/ u \in DOMAIN s.pd /\ ~s.pd[u].online
  \/ u \in DOMAIN s.rp /\ ~s.rp[u].data.online

\* ---- C9 ----
\* C9: from every reachable state, disconnect(u) gives a registry in which u has
\* no handle, is in no subscriber set and has no entry in user_subscriptions,
\* and in which every other user has the handle, the entry and the channel
\* memberships it had before.
C9_DisconnectEffect ==
  \A u \in Users :
    LET s2 == disconnect(St, u)
    IN /\ u \notin DOMAIN s2.ac
       /\ \A c \in DOMAIN s2.cs : u \notin s2.cs[c]
       /\ u \notin DOMAIN s2.us
       /\ DOMAIN s2.cs = DOMAIN channel_subscriptions
       /\ \A v \in Users \ {u} :
            /\ v \in DOMAIN s2.ac <=> v \in DOMAIN active_connections
            /\ HandleOf(s2, v) = HandleOf(St, v)
            /\ v \in DOMAIN s2.us <=> v \in DOMAIN user_subscriptions
            /\ ChannelsOf(s2, v) = ChannelsOf(St, v)
            /\ \A c \in Channels : v \in Subscribers(s2, c) <=> v \in Subscribers(St, c)

\* a user that was disconnected is gone from the registry while another user
\* is connected and subscribed
C9_Witness ==
  \E u \in Users, v \in Users, c \in Channels :
    /\ RecordedOffline(St, u)
    /\ u \notin DOMAIN active_connections /\ u \notin DOMAIN user_subscriptions
    /\ u \notin Subscribers(St, c)
    /\ v # u /\ v \in DOMAIN active_connections /\ v \in Subscribers(St, c)

\* ---- C10 ----
\* C10: subscribe_to_channel(u, c) for a user u without a registered connection
\* records the edge in both indices; a channel broadcast calls send_text only
\* for users registered at their turn and never raises; connect(h, u) leaves
\* the subscriptions of u as they are, and a channel broadcast visits the
\* subscribers of that moment and calls send_text for each one that is
\* registered at its turn and not excluded.
C10_SubscribeBeforeConnect ==
  [][ /\ \A u \in Users \ DOMAIN active_connections, c \in Channels :
           LET s2 == subscribe_to_channel(St, u, c)
           IN /\ u \in Subscribers(s2, c) /\ c \in ChannelsOf(s2, u)
              /\ SubscribeCall(u, c) =>
                   /\ u \in Subscribers([cs |-> channel_subscriptions'], c)
                   /\ c \in ChannelsOf([us |-> user_subscriptions'], u)
      /\ \A u \in Users :
           ConnectCall(u) =>
             /\ ChannelsOf([us |-> user_subscriptions'], u) = ChannelsOf(St, u)
             /\ \A c \in Channels :
                  u \in Subscribers([cs |-> channel_subscriptions'], c)
                    <=> u \in Subscribers(St, c)
      /\ \A t \in Slots :
           tasks'[t].op \in {"new_message", "read_receipt"} =>
             /\ tasks'[t].pc # "raised"
             /\ tasks[t].pc = "idle" => tasks'[t].snap = Subscribers(St, tasks'[t].chan)
             /\ StartsSend(t) => tasks'[t].cur \in DOMAIN active_connections
             /\ tasks'[t].att = Recipients(tasks'[t])
    ]_vars

\* a broadcast has finished that reached a subscriber and passed over another
\* one, which is subscribed without ever having connected
C10_Witness ==
  \E t \in Slots, u \in Users :
    /\ tasks[t].op \in {"new_message", "read_receipt"} /\ tasks[t].pc = "done"
    /\ u \in tasks[t].snap /\ u \notin tasks[t].turn /\ u \notin tasks[t].att
    /\ tasks[t].att # {}
    /\ u \in Subscribers(St, tasks[t].chan)
    /\ u \notin DOMAIN active_connections
    /\ u \notin DOMAIN presence_data /\ u \notin DOMAIN redis_presence

C12_DisconnectCloses ==
  /\ [][ /\ \A k \in SessionIds, u \in Users :
               ReceiveDisconnect(k) /\ sessions[k].user = u =>
                 /\ sessions'[k].pc = "closed"
                 /\ St' = disconnect(St, u)
                 /\ ~is_user_connected(St, u)'
                 /\ ~is_user_online(St, u, FALSE)'
         /\ \A u \in Users :
               ~is_user_online(St, u, FALSE) /\ is_user_online(St, u, FALSE)' =>
                 \E k \in SessionIds : sessions[k].pc = "none" /\ sessions'[k].user = u
        ]_vars
  /\ \A k \in SessionIds :
       (sessions[k].pc \in {"open", "pong"} /\ sessions[k].gone)
         ~> (sessions[k].pc = "closed")

\* a session has closed on the disconnect of its transport; its user is out of
\* the registry and recorded offline
C12_Witness ==
  \E k \in SessionIds :
    /\ sessions[k].pc = "closed" /\ sessions[k].gone
    /\ ~is_user_connected(St, sessions[k].user)
    /\ RecordedOffline(St, sessions[k].user)
    /\ ~is_user_online(St, sessions[k].user, FALSE)

\* ---- C13 ----
\* C13: every presence_change frame that is sent carries online = true; the
\* step that closes a session starts no send_text, and the step in which a
\* send fails starts none but the next one of the same broadcast, to a user
\* other than the pruned one.
C13_NoOfflineFrame ==
  [][ /\ \A t \in Slots :
           tasks'[t].op = "connect" => tasks'[t].online
      /\ \A k \in SessionIds :
           sessions[k].pc # "closed" /\ sessions'[k].pc = "closed" =>
             /\ tasks' = tasks
             /\ \A j \in SessionIds : sessions'[j].pc = "pong" => sessions[j].pc = "pong"
      /\ \A t \in Slots :
           tasks[t].pc = "send" /\ tasks[t].cur \in tasks'[t].fail =>
             /\ \A t2 \in Slots \ {t} : tasks'[t2] = tasks[t2]
             /\ tasks'[t].op = tasks[t].op /\ tasks'[t].online = tasks[t].online
             /\ tasks'[t].snap = tasks[t].snap
             /\ tasks'[t].cur # tasks[t].cur
             /\ \A j \in SessionIds : sessions'[j].pc = "pong" => sessions[j].pc = "pong"
    ]_vars

\* a session has closed, and the failed send of a presence broadcast has
\* pruned a user
C13_Witness ==
  \E k \in SessionIds, t \in Slots :
    /\ sessions[k].pc = "closed"
    /\ tasks[t].op = "connect" /\ tasks[t].online
    /\ tasks[t].fail # {} /\ tasks[t].att # {}

\* the sessions other than k are as they were
OthersUntouched(k) == \A j \in SessionIds \ {k} : sessions'[j] = sessions[j]

\* session k has taken a frame of one of these kinds in this step
Took(k, kinds) ==
  /\ sessions[k].pc = "open"
  /\ sessions'[k].last \in kinds
  /\ sessions'[k].last # sessions[k].last

\* ---- C14 ----
\* C14: for an open session, a frame that is no JSON, that is JSON but no
\* object, or whose type is none of subscribe_channel, unsubscribe_channel and
\* ping, is handled without a reply and without a change of the registry or
\* of the presence store; the session is open after it and takes further frames.
BadFrames ==
  {f \in Frames : f.parse # "object"
                   \/ f.type \notin {"subscribe_channel", "unsubscribe_channel", "ping"}}

C14_BadFrameDropped ==
  [][ \A k \in SessionIds :
        /\ sessions[k].pc = "open" =>
             \A f \in BadFrames :
               HandleFrame(St, sessions[k].user, f) = [s |-> St, reply |-> "none"]
        /\ Took(k, {"error", "array", "frobnicate", "absent"}) =>
             /\ St' = St
             /\ tasks' = tasks
             /\ sessions'[k].pc = "open" /\ ~sessions'[k].gone
             /\ OthersUntouched(k)
    ]_vars

\* a session that has met a frame that is no JSON is open, registered and
\* subscribed, next to another open session
C14_Witness ==
  \E k \in SessionIds, j \in SessionIds :
    /\ sessions[k].pc = "open" /\ sessions[k].last = "error"
    /\ is_user_connected(St, sessions[k].user)
    /\ ChannelsOf(St, sessions[k].user) # {}
    /\ j # k /\ sessions[j].pc = "open"

\* ---- C15 ----
\* C15: for an open session, a subscribe_channel or unsubscribe_channel frame
\* whose channel_id is absent, null or not an integer is handled without a
\* reply and leaves channel_subscriptions and user_subscriptions as they are.
MalformedCidFrames ==
  {f \in Frames : /\ f.parse = "object"
                   /\ f.type \in {"subscribe_channel", "unsubscribe_channel"}
                   /\ f.cid.k # "int"}

C15_MalformedChannelIdIgnored ==
  \A k \in SessionIds :
    sessions[k].pc = "open" =>
      \A f \in MalformedCidFrames :
        LET r == HandleFrame(St, sessions[k].user, f)
        IN /\ r.reply = "none"
           /\ r.s.cs = channel_subscriptions
           /\ r.s.us = user_subscriptions

\* ---- C16 ----
\* C16: a ping taken by an open session of u applies update_last_seen(u) and
\* then awaits one send_text of a pong on the session's own websocket; the
\* step changes no other session, starts no other send and leaves the registry
\* as it is; when that send ends, well or not, the session is open again and
\* nothing else has changed.
C16_PingPong ==
  [][ \A k \in SessionIds :
        /\ sessions[k].pc = "open" =>
             LET r == HandleFrame(St, sessions[k].user, PingFrame)
             IN /\ r.reply = "pong"
                /\ r.s = update_last_seen(St, sessions[k].user)
                /\ r.s.ac = active_connections
                /\ r.s.cs = channel_subscriptions
                /\ r.s.us = user_subscriptions
        /\ sessions[k].pc = "open" /\ sessions'[k].pc = "pong" =>
             /\ sessions'[k].last = "ping"
             /\ St' = update_last_seen(St, sessions[k].user)
             /\ active_connections' = active_connections
             /\ channel_subscriptions' = channel_subscriptions
             /\ user_subscriptions' = user_subscriptions
             /\ sessions'[k].handle = sessions[k].handle
             /\ tasks' = tasks
             /\ OthersUntouched(k)
        /\ sessions[k].pc = "pong" /\ sessions'[k].pc # "pong" =>
             /\ sessions'[k].pc = "open"
             /\ St' = St
             /\ tasks' = tasks
             /\ OthersUntouched(k)
        /\ Took(k, {"ping"}) => sessions'[k].pc = "pong"
    ]_vars

\* a session awaits the send of its pong on its own websocket, while the
\* registry holds a newer websocket for its user
C16_Witness ==
  \E k \in SessionIds :
    /\ sessions[k].pc = "pong" /\ sessions[k].last = "ping"
    /\ is_user_connected(St, sessions[k].user)
    /\ HandleOf(St, sessions[k].user) # sessions[k].handle

\* a record of u can be read: the dict has the key, Redis has the key alive
HasRecord(s, u) == IF use_redis THEN RedisHas(s, u) ELSE u \in DOMAIN s.pd

\* ---- C17 ----
\* C17: from every reachable state and for every user u, after
\* set_user_offline(u) get_user_presence(u) returns online = false and a
\* last_seen that is the time of the call, on either backend.
C17_OfflineWritesRecord ==
  \A u \in Users :
    LET p == get_user_presence(set_user_offline(St, u), u, FALSE)
    IN /\ ~p.online
       /\ p.last_seen = now
       /\ p.last_seen # NoTime

\* ---- C18 ----
\* C18: from every reachable state and for every user u, update_last_seen(u)
\* changes nothing when no record of u can be read (never written, or a Redis
\* key past its ttl); otherwise the record read afterwards differs from the
\* one read before in last_seen only, which is the time of the call; the
\* records of the other users and the set of online users stay as they are.
C18_RefreshOnlyLastSeen ==
  \A u \in Users :
    LET s2 == update_last_seen(St, u)
        before == get_user_presence(St, u, FALSE)
        after == get_user_presence(s2, u, FALSE)
    IN /\ ~HasRecord(St, u) => s2 = St
       /\ HasRecord(s2, u) <=> HasRecord(St, u)
       /\ after.online = before.online
       /\ after.connected_at = before.connected_at
       /\ HasRecord(St, u) => after.last_seen = now
       /\ s2.ro = redis_online_users
       /\ \A v \in Users \ {u} :
            get_user_presence(s2, v, FALSE) = get_user_presence(St, v, FALSE)

\* one user has been refreshed after it connected, and the Redis key of
\* another one has run out
C18_Witness ==
  \E u \in Users, v \in Users :
    /\ HasRecord(St, u)
    /\ get_user_presence(St, u, FALSE).online
    /\ get_user_presence(St, u, FALSE).last_seen > get_user_presence(St, u, FALSE).connected_at
    /\ v \in DOMAIN redis_presence /\ ~HasRecord(St, v)

\* ---- C19 ----
\* C19: get_user_presence(u) returns {online: false, last_seen: None} when no
\* record of u can be read and when Redis raises; otherwise it returns the
\* stored record, and what it returns changes only by a write for u, to the
\* record that write makes, or by the end of the ttl of a Redis key.
C19_PresenceOrDefault ==
  [][ \A u \in Users :
        /\ use_redis => get_user_presence(St, u, TRUE) = DefaultPresence
        /\ ~HasRecord(St, u) => get_user_presence(St, u, FALSE) = DefaultPresence
        /\ HasRecord(St, u) =>
             get_user_presence(St, u, FALSE)
               = IF use_redis THEN redis_presence[u].data ELSE presence_data[u]
        /\ get_user_presence(St, u, FALSE)' # get_user_presence(St, u, FALSE) =>
             \/ get_user_presence(St, u, FALSE)'
                  \in {get_user_presence(set_user_online(St, u), u, FALSE),
                       get_user_presence(set_user_offline(St, u), u, FALSE),
                       get_user_presence(update_last_seen(St, u), u, FALSE)}
             \/ /\ use_redis /\ now' > now
                /\ get_user_presence(St, u, FALSE)' = DefaultPresence
    ]_vars

\* a record written online and then offline is read back, while the key of
\* another user has run out
C19_Witness ==
  \E u \in Users, v \in Users :
    /\ use_redis
    /\ HasRecord(St, u)
    /\ ~get_user_presence(St, u, FALSE).online
    /\ get_user_presence(St, u, FALSE).last_seen > 0
    /\ v \in DOMAIN redis_presence /\ ~HasRecord(St, v)
    /\ get_user_presence(St, v, FALSE) = DefaultPresence

\* ---- C20 ----
\* C20: on Redis, a record written by set_user_online or refreshed by
\* update_last_seen is read as online = false once ONLINE_TTL has passed since
\* that write; on the in-memory store the passing of time changes no record,
\* and a user read as online is read as online until set_user_offline for it.
C20_OnlineExpiry ==
  [][ \A u \in Users :
        /\ use_redis /\ u \in DOMAIN redis_presence /\ redis_presence[u].data.online =>
             /\ redis_presence[u].ttl = ONLINE_TTL
             /\ now >= redis_presence[u].data.last_seen + ONLINE_TTL =>
                  ~get_user_presence(St, u, FALSE).online
             /\ now < redis_presence[u].data.last_seen + ONLINE_TTL =>
                  get_user_presence(St, u, FALSE).online
        /\ ~use_redis /\ now' # now =>
             get_user_presence(St, u, FALSE)' = get_user_presence(St, u, FALSE)
        /\ ~use_redis /\ get_user_presence(St, u, FALSE).online
             /\ ~get_user_presence(St, u, FALSE)'.online =>
               presence_data' = set_user_offline(St, u).pd
    ]_vars

\* the Redis key of a user written online has run out: the user reads offline
C20_Witness ==
  \E u \in Users :
    /\ use_redis
    /\ u \in DOMAIN redis_presence /\ redis_presence[u].data.online
    /\ now >= redis_presence[u].data.last_seen + ONLINE_TTL
    /\ ~get_user_presence(St, u, FALSE).online

\* ---- C21 ----
\* C21: in every reachable state, on either backend and also after the ttl of
\* a Redis key has run out, a user is in get_online_users() if and only if
\* get_user_presence reads it as online.
C21_OnlineSetMatchesPresence ==
  \A u \in Users :
    u \in get_online_users(St, FALSE) <=> get_user_presence(St, u, FALSE).online

\* ---- C22 ----
\* C22: from every reachable state and for every user u, set_user_online(u)
\* leaves u read as online and in the set of online users, with last_seen and
\* connected_at at the time of the call and, on Redis, the online ttl; applied
\* once more it leaves the same state, so the second call changes nothing but
\* what the passing of time puts into the timestamps and the ttl; the records
\* of the other users stay as they are.
C22_SetOnlineIdempotent ==
  \A u \in Users :
    LET s1 == set_user_online(St, u)
        s2 == set_user_online(s1, u)
        p1 == get_user_presence(s1, u, FALSE)
        p2 == get_user_presence(s2, u, FALSE)
    IN /\ p1.online /\ p2.online
       /\ u \in get_online_users(s1, FALSE)
       /\ get_online_users(s2, FALSE) = get_online_users(s1, FALSE)
       /\ get_online_users(s1, FALSE) = get_online_users(St, FALSE) \cup {u}
       /\ p1.last_seen = now /\ p1.connected_at = now
       /\ use_redis => s1.rp[u].ttl = ONLINE_TTL
       /\ s2 = s1
       /\ \A v \in Users \ {u} :
            get_user_presence(s1, v, FALSE) = get_user_presence(St, v, FALSE)

\* a user was set online, is still read as online and in the set of online
\* users, and time has passed since: the next call refreshes its timestamps
C22_Witness ==
  \E u \in Users :
    /\ HasRecord(St, u)
    /\ get_user_presence(St, u, FALSE).online
    /\ u \in get_online_users(St, FALSE)
    /\ get_user_presence(St, u, FALSE).last_seen < now

\* ---- C23 ----
\* C23: when the store raises in a call, set_user_online, set_user_offline and
\* update_last_seen return False, get_user_presence returns the offline
\* default and get_online_users the empty list, and none of them raises; a
\* connect whose set_user_online failed has stored its handle and goes on to
\* its broadcast, and a disconnect whose set_user_offline failed has removed
\* the handle and every subscription edge of the user, as one that succeeded.
C23_StoreFailureContained ==
  /\ [](\A u \in Users, o \in Outcomes :
          /\ ~set_user_online_result(St, u, o).raised
          /\ ~set_user_offline_result(St, u, o).raised
          /\ ~update_last_seen_result(St, u, o).raised
          /\ o # "ok" =>
               /\ ~set_user_online_result(St, u, o).ret
               /\ ~set_user_offline_result(St, u, o).ret
               /\ ~update_last_seen_result(St, u, o).ret
               /\ get_user_presence(St, u, TRUE) = DefaultPresence
               /\ get_online_users(St, TRUE) = {}
          /\ LET s2 == disconnect_outcome(St, u, o)
                 s3 == disconnect_outcome(St, u, "ok")
             IN /\ s2.ac = s3.ac /\ s2.cs = s3.cs /\ s2.us = s3.us
                /\ u \notin DOMAIN s2.ac /\ u \notin DOMAIN s2.us
                /\ \A c \in DOMAIN s2.cs : u \notin s2.cs[c]
          /\ LET r == set_user_online_result(register(St, FreshHandle(u), u), u, o)
             IN /\ ~r.raised
                /\ u \in DOMAIN r.s.ac /\ r.s.ac[u] = FreshHandle(u))
  /\ [][ /\ \A t \in Slots :
              /\ tasks'[t].pc # "raised"
              /\ tasks[t].pc = "idle" /\ tasks'[t].pc # "idle" =>
                   /\ tasks'[t].op = "connect" /\ tasks'[t].pc = "send"
                   /\ tasks'[t].user \in DOMAIN active_connections'
                   /\ active_connections'[tasks'[t].user] = FreshHandle(tasks'[t].user)
         /\ \A u \in DOMAIN active_connections \ DOMAIN active_connections' :
              /\ u \notin DOMAIN user_subscriptions'
              /\ \A c \in DOMAIN channel_subscriptions' : u \notin channel_subscriptions'[c]
              /\ DOMAIN channel_subscriptions' = DOMAIN channel_subscriptions
       ]_vars

\* one user is registered without an online record, its set_user_online
\* having failed; another is out of the registry and of every channel while
\* its record still says online, its set_user_offline having failed
C23_Witness ==
  \E u \in Users, v \in Users, c \in Channels :
    /\ use_redis
    /\ u \in DOMAIN active_connections /\ ~HasRecord(St, u)
    /\ v \notin DOMAIN active_connections /\ v \notin DOMAIN user_subscriptions
    /\ c \in DOMAIN channel_subscriptions /\ v \notin channel_subscriptions[c]
    /\ HasRecord(St, v) /\ get_user_presence(St, v, FALSE).online
    /\ v \in get_online_users(St, FALSE)

\* ---- C24 ----
\* C24: a registered user that a broadcast has still to visit is sent the
\* frame in the end, unless it leaves the registry first, also while the
\* send_text of that broadcast to a stalled peer is awaited.
C24_StalledPeerDoesNotBlock ==
  \A t \in Slots, v \in Users :
    (tasks[t].pc = "send" /\ v \in tasks[t].rem /\ v \in DOMAIN active_connections)
      ~> (v \in tasks[t].att \/ v \notin DOMAIN active_connections)

\* ---- C25 ----
\* C25: a session takes a frame only when it is open, that is when nothing of
\* the frame before is left to do: the step that takes a frame applies the
\* frame's whole effect on the registry and the presence store and starts the
\* reply, if there is one; until that reply has ended, and before connect has
\* returned, the session takes no frame.  Other sessions and the broadcasts
\* run in between, and a frame changes none of them.
C25_FramesOneAtATime ==
  [][ \A k \in SessionIds :
        /\ sessions'[k].last # sessions[k].last =>
             /\ sessions[k].pc = "open" /\ ~sessions[k].gone
             /\ tasks' = tasks
             /\ OthersUntouched(k)
             /\ \E f \in Frames :
                  LET r == HandleFrame(St, sessions[k].user, f)
                  IN /\ sessions'[k].last = (IF f.parse = "object" THEN f.type ELSE f.parse)
                     /\ St' = r.s
                     /\ sessions'[k].pc = (IF r.reply = "pong" THEN "pong" ELSE "open")
        /\ sessions[k].pc \in {"connecting", "pong", "closed"} =>
             /\ sessions'[k].last = sessions[k].last
             /\ \A f \in Frames : ~ReceiveFrame(k, f)
        /\ sessions[k].pc = "pong" => sessions'[k].pc \in {"pong", "open"}
    ]_vars

\* a session that has subscribed awaits the end of its pong while the send of
\* a broadcast is in flight
C25_Witness ==
  \E k \in SessionIds, t \in Slots :
    /\ sessions[k].pc = "pong" /\ sessions[k].last = "ping"
    /\ ChannelsOf(St, sessions[k].user) # {}
    /\ tasks[t].pc = "send"

\* the pending requests of sender a to recipient b
PendingRows(a, b) ==
  {i \in DOMAIN partner_requests :
     /\ partner_requests[i].sender_id = a
     /\ partner_requests[i].recipient_id = b
     /\ partner_requests[i].status = PENDING}

\* ---- C26 ----
\* C26: in every reachable state there is at most one pending request for each
\* ordered pair of sender and recipient; create_partner_request for a pair
\* that has a pending request answers 400 and leaves both tables as they are,
\* and a row is only ever added as a pending request of a pair that had none.
C26_OnePendingPerPair ==
  /\ [](\A a \in Users, b \in Users : Cardinality(PendingRows(a, b)) <= 1)
  /\ [](\A a \in UserIds, b \in UserIds :
          PendingRows(a, b) # {} =>
            LET o == create_partner_request(Db, a, b)
            IN o.code = HTTP_400_BAD_REQUEST /\ o.db = Db)
  /\ [][ /\ response'.op = "create" /\ response'.detail = "exists" =>
              /\ response'.code = HTTP_400_BAD_REQUEST
              /\ partner_requests' = partner_requests
              /\ partnerships' = partnerships
              /\ \E a \in Users, b \in Users : PendingRows(a, b) # {}
         /\ Len(partner_requests') # Len(partner_requests) =>
              LET row == partner_requests'[Len(partner_requests')]
              IN /\ Len(partner_requests') = Len(partner_requests) + 1
                 /\ row.status = PENDING
                 /\ PendingRows(row.sender_id, row.recipient_id) = {}
                 /\ response'.code = HTTP_201_CREATED
       ]_vars

\* a second request of a pair was refused while its first one is pending, and
\* the same pair has an earlier request that was answered
C26_Witness ==
  /\ response.op = "create" /\ response.detail = "exists"
  /\ \E i \in DOMAIN partner_requests, j \in DOMAIN partner_requests :
       /\ i < j
       /\ partner_requests[i].sender_id = partner_requests[j].sender_id
       /\ partner_requests[i].recipient_id = partner_requests[j].recipient_id
       /\ partner_requests[i].status # PENDING
       /\ partner_requests[j].status = PENDING

\* the requests with this status
RowsWith(st) == {i \in DOMAIN partner_requests : partner_requests[i].status = st}

\* ---- C27 ----
\* C27: respond_to_request with accept on a pending request makes it accepted
\* and adds one partnership of its sender and its recipient; with reject it
\* makes it rejected and adds none; a request changes its status in no other
\* way and a partnership is added in no other way, so there are as many
\* partnerships as accepted requests.
C27_PartnershipPerAccept ==
  /\ [](Len(partnerships) = Cardinality(RowsWith(ACCEPTED)))
  /\ [][ /\ \A i \in DOMAIN partner_requests :
              partner_requests'[i].status # partner_requests[i].status =>
                /\ partner_requests[i].status = PENDING
                /\ response'.op = "respond" /\ response'.code = HTTP_200_OK
                /\ \A j \in DOMAIN partner_requests \ {i} :
                     partner_requests'[j] = partner_requests[j]
                /\ partner_requests'[i].sender_id = partner_requests[i].sender_id
                /\ partner_requests'[i].recipient_id = partner_requests[i].recipient_id
                /\ \/ /\ partner_requests'[i].status = ACCEPTED
                      /\ response'.detail = "accepted"
                      /\ partnerships' =
                           Append(partnerships,
                                  [user_a_id |-> partner_requests[i].sender_id,
                                   user_b_id |-> partner_requests[i].recipient_id])
                   \/ /\ partner_requests'[i].status = REJECTED
                      /\ response'.detail = "rejected"
                      /\ partnerships' = partnerships
         /\ partnerships' # partnerships =>
              \E i \in DOMAIN partner_requests :
                partner_requests[i].status = PENDING /\ partner_requests'[i].status = ACCEPTED
       ]_vars

\* one request was accepted and one rejected, there is one partnership, and a
\* second answer to a request was refused
C27_Witness ==
  /\ RowsWith(ACCEPTED) # {} /\ RowsWith(REJECTED) # {}
  /\ Len(partnerships) = 1
  /\ response.op = "respond" /\ response.detail = "responded"

\* ---- C28 ----
\* C28: when a session closes whose websocket is no longer the one registered
\* for its user, a later connect having replaced it, the registered handle of
\* the user, its subscriptions and its online record stay as they are.
C28_StaleCloseKeepsNewHandle ==
  [][ \A k \in SessionIds, u \in Users :
        /\ sessions[k].pc # "closed" /\ sessions'[k].pc = "closed"
        /\ sessions[k].user = u
        /\ is_user_connected(St, u)
        /\ HandleOf(St, u) # sessions[k].handle
        => /\ is_user_connected(St, u)'
           /\ HandleOf(St, u)' = HandleOf(St, u)
           /\ ChannelsOf(St, u)' = ChannelsOf(St, u)
           /\ \A c \in Channels : u \in Subscribers(St, c)' <=> u \in Subscribers(St, c)
           /\ is_user_online(St, u, FALSE)' = is_user_online(St, u, FALSE)
    ]_vars

\* ---- C29 ----
\* C29: when the send_text of a broadcast in flight to u raises and the
\* handle it was called on is no longer the one registered for u, u having
\* connected again in the meantime, the registered handle of u and its
\* subscriptions stay as they are.
C29_FailureOfReplacedHandle ==
  [][ \A t \in Slots, u \in Users :
        /\ tasks[t].op \in {"connect", "new_message", "read_receipt"}
        /\ tasks[t].pc = "send" /\ tasks[t].cur = u
        /\ u \notin tasks[t].fail /\ u \in tasks'[t].fail
        /\ is_user_connected(St, u)
        /\ HandleOf(St, u) # tasks[t].curh
        => /\ is_user_connected(St, u)'
           /\ HandleOf(St, u)' = HandleOf(St, u)
           /\ ChannelsOf(St, u)' = ChannelsOf(St, u)
           /\ \A c \in Channels : u \in Subscribers(St, c)' <=> u \in Subscribers(St, c)
    ]_vars

Subscribed(s) ==
  {u \in DOMAIN s.us : s.us[u] # {}} \cup UNION {s.cs[c] : c \in DOMAIN s.cs}

\* ---- C31 ----
\* C31: when every subscription is made by a control frame of a session, in
\* every reachable state every user that has a subscription edge is registered
\* in active_connections.
C31_SubscribedIsRegistered ==
  \A u \in Subscribed(St) : is_user_connected(St, u)

\* ---- C32 ----
\* C32: unsubscribe_from_channel(u, c) leaves u out of the subscriber set of c,
\* u comes back into it only by subscribe_to_channel(u, c), and a new_message or
\* read_receipt broadcast to c takes its recipients from the set as it is when
\* the broadcast starts: one that starts while u is not subscribed never calls
\* send_text for u.  A broadcast that started earlier keeps its own copy.
C32_UnsubscribedNotReached ==
  /\ [](\A u \in Users, c \in Channels :
          /\ u \notin Subscribers(unsubscribe_from_channel(St, u, c), c)
          /\ \A t \in Slots :
               tasks[t].op \in {"new_message", "read_receipt"} =>
                 tasks[t].att \subseteq tasks[t].snap)
  /\ [][ \A u \in Users, c \in Channels :
           /\ (u \notin Subscribers(St, c) /\ u \in Subscribers(St, c)')
                => St' = subscribe_to_channel(St, u, c)
           /\ \A t \in Slots :
                ( /\ tasks[t].pc = "idle"
                  /\ tasks'[t].op \in {"new_message", "read_receipt"}
                  /\ tasks'[t].chan = c
                  /\ u \notin Subscribers(St, c) )
                => /\ u \notin tasks'[t].snap
                   /\ tasks'[t].cur # u
       ]_vars

\* a broadcast to a channel has reached a subscriber and has left out a
\* registered user that had subscribed to the channel and unsubscribed again
C32_Witness ==
  \E t \in Slots, u \in Users :
    /\ tasks[t].op \in {"new_message", "read_receipt"}
    /\ tasks[t].att # {}
    /\ u \notin tasks[t].snap /\ u # tasks[t].user
    /\ is_user_connected(St, u)
    /\ u \in DOMAIN user_subscriptions /\ tasks[t].chan \notin user_subscriptions[u]

\* every user connects, disconnects and subscribes while a presence broadcast
\* is suspended at a send
NextRace ==
  \/ NextConnect
  \/ \E u \in Users, c \in Channels : SubscribeCall(u, c)

SpecRace == Init /\ [][NextRace]_vars

\* what the registry and the store hold for user v is the same in s1 and s2
SameUser(s1, s2, v) ==
  /\ v \in DOMAIN s1.ac <=> v \in DOMAIN s2.ac
  /\ HandleOf(s1, v) = HandleOf(s2, v)
  /\ v \in DOMAIN s1.us <=> v \in DOMAIN s2.us
  /\ ChannelsOf(s1, v) = ChannelsOf(s2, v)
  /\ \A c \in Channels : v \in Subscribers(s1, c) <=> v \in Subscribers(s2, c)

\* the step is one of the coroutine of slot t: its send_text has ended
EndsSend(t) == tasks[t].pc = "send" /\ tasks'[t].cur # tasks[t].cur

\* ---- C33 ----
\* C33 (as stated): a connect for a user that is already registered, from its
\* call to its return, leaves the handle and the edges of every other user as
\* they are.
C33_ReconnectChangesOnlyItself ==
  [][ \A t \in Slots :
        EndsSend(t) /\ tasks[t].op = "connect" /\ tasks[t].prev # NoHandle =>
          \A v \in Users \ {tasks[t].user} : SameUser(St, St', v)
    ]_vars

\* C33 (amended): the step of a connect for an already registered user u that
\* registers the new handle changes only the handle and the presence record of
\* u: the edges of u, and the handle, edges and presence record of every other
\* user, are as before.  The presence broadcast that connect then runs leaves u
\* as it is and changes another user only by unregistering it, as disconnect
\* does, when send_text to it raised or when it is found unregistered at its
\* turn.
C33_ReconnectFrame ==
  [][ /\ \A u \in DOMAIN active_connections :
           ConnectCall(u) =>
             /\ HandleOf(St, u)' = FreshHandle(u)
             /\ HandleOf(St, u)' # HandleOf(St, u)
             /\ is_user_online(St, u, FALSE)'
             /\ user_subscriptions' = user_subscriptions
             /\ channel_subscriptions' = channel_subscriptions
             /\ \A v \in Users \ {u} :
                  /\ SameUser(St, St', v)
                  /\ get_user_presence(St, v, FALSE)' = get_user_presence(St, v, FALSE)
      /\ \A t \in Slots :
           EndsSend(t) /\ tasks[t].op = "connect" =>
             LET left == (tasks'[t].fail \ tasks[t].fail)
                           \cup {v \in tasks[t].rem \ tasks'[t].rem :
                                   v \notin DOMAIN active_connections}
             IN /\ tasks[t].user \notin left
                /\ \A v \in Users \ left :
                     /\ SameUser(St, St', v)
                     /\ get_user_presence(St, v, FALSE)' = get_user_presence(St, v, FALSE)
                /\ \A v \in left :
                     /\ ~is_user_connected(St, v)'
                     /\ v \notin Subscribed(St)'
                     /\ ~is_user_online(St, v, FALSE)'
    ]_vars

\* the connect of a registered and subscribed user has returned: the user has
\* a new handle and its edges, and a recipient whose send failed is gone
C33_Witness ==
  \E t \in Slots, c \in Channels :
    /\ tasks[t].op = "connect" /\ tasks[t].pc = "done"
    /\ tasks[t].prev # NoHandle
    /\ HandleOf(St, tasks[t].user) \notin {NoHandle, tasks[t].prev}
    /\ tasks[t].user \in Subscribers(St, c) /\ c \in ChannelsOf(St, tasks[t].user)
    /\ tasks[t].fail # {}
    /\ \A v \in tasks[t].fail : ~is_user_connected(St, v)

\* ---- C34 ----
\* C34: however connects, disconnects and subscriptions of its recipients fall
\* at the awaits of a broadcast, the broadcast never raises, every send_text is
\* called on the handle registered for its recipient at that moment, and a step
\* of the broadcast changes nothing of a user of its snapshot that had left the
\* registry before the step.
C34_BroadcastRaceSafe ==
  /\ [](\A t \in Slots : tasks[t].pc # "raised")
  /\ [][ \A t \in Slots :
           /\ StartsSend(t) =>
                /\ tasks'[t].cur \in DOMAIN active_connections'
                /\ tasks'[t].curh = active_connections'[tasks'[t].cur]
           /\ EndsSend(t) =>
                \A v \in tasks[t].snap \ DOMAIN active_connections :
                  /\ SameUser(St, St', v)
                  /\ get_user_presence(St, v, FALSE)' = get_user_presence(St, v, FALSE)
       ]_vars

\* ---- C35 ----
\* C35: after any sequence of set_user_online, set_user_offline and
\* update_last_seen calls made to both backends alike, with no key expired and
\* no call failed, get_user_presence returns the same online flag from the
\* Redis store and from the in-memory store for every user, and
\* get_online_users returns the same set from both.
C35_BackendsAgree ==
  /\ \A u \in Users :
       get_user_presence_on(TRUE, St, u, FALSE).online
         = get_user_presence_on(FALSE, St, u, FALSE).online
  /\ get_online_users_on(TRUE, St, FALSE) = get_online_users_on(FALSE, St, FALSE)

\* one user is online in both stores, one went offline after being online, and
\* one was set offline without ever being online, which only Redis records
C35_Witness ==
  \E u \in Users, v \in Users, w \in Users :
    /\ u \in redis_online_users /\ u \in DOMAIN presence_data /\ presence_data[u].online
    /\ v \in DOMAIN presence_data /\ ~presence_data[v].online
    /\ v \in DOMAIN redis_presence /\ ~redis_presence[v].data.online
    /\ w \in DOMAIN redis_presence /\ w \notin DOMAIN presence_data
    /\ now > 0

\* ---- C36 ----
\* C36: the status of a partner request changes only from pending to accepted
\* or from pending to rejected; respond_to_request for a request that is
\* accepted or rejected answers 400 whatever the action and leaves both tables
\* as they are, so an answered request keeps its status and gets no
\* partnership however many responses follow.
C36_AnsweredStaysAnswered ==
  /\ [](\A i \in DOMAIN partner_requests :
          /\ partner_requests[i].status \in {PENDING, ACCEPTED, REJECTED}
          /\ partner_requests[i].status # PENDING =>
               \A a \in Actions :
                 LET o == respond_to_request(Db, i, a)
                 IN o.code = HTTP_400_BAD_REQUEST /\ o.db = Db)
  /\ [][ /\ \A i \in DOMAIN partner_requests :
              /\ partner_requests[i].status # PENDING =>
                   partner_requests'[i].status = partner_requests[i].status
              /\ partner_requests'[i].status # partner_requests[i].status =>
                   partner_requests'[i].status \in {ACCEPTED, REJECTED}
         /\ response'.op = "respond" /\ response'.detail = "responded" =>
              /\ response'.code = HTTP_400_BAD_REQUEST
              /\ partner_requests' = partner_requests
              /\ partnerships' = partnerships
       ]_vars

\* a response to a rejected request was refused: the request is still
\* rejected and no partnership exists
C36_Witness ==
  /\ response.op = "respond" /\ response.detail = "responded"
  /\ response.code = HTTP_400_BAD_REQUEST
  /\ RowsWith(REJECTED) # {} /\ RowsWith(ACCEPTED) = {} /\ RowsWith(PENDING) = {}
  /\ partnerships = <<>>

\* ---- C37 ----
\* C37: on the Redis store a record that says offline is held with the
\* retention set_user_offline gave it: update_last_seen for an offline user
\* never leaves its key with the ttl of an online record.
C37_KeepaliveKeepsRetention ==
  use_redis =>
    \A u \in DOMAIN redis_presence :
      ~redis_presence[u].data.online => redis_presence[u].ttl = OFFLINE_TTL

\* the user and channel identifiers the registry holds
RegistryUserIds(s) ==
  DOMAIN s.ac \cup DOMAIN s.us \cup UNION {s.cs[c] : c \in DOMAIN s.cs}
RegistryChannelIds(s) ==
  DOMAIN s.cs \cup UNION {s.us[u] : u \in DOMAIN s.us}

\* ---- C38 ----
\* C38: connect, subscribe_to_channel, unsubscribe_from_channel and disconnect
\* refuse a negative or absent user or channel identifier and leave the
\* registry as it is, so the registry, which starts empty, never holds a
\* negative user identifier or a negative channel identifier.
C38_InvalidIdsRejected ==
  /\ \A u \in RegistryUserIds(St) : u >= 0
  /\ \A c \in RegistryChannelIds(St) : c >= 0
====
